---- MODULE Spec2Model ----
(***************************************************************************)
(* A model of cartographer: the debug-info type-graph builder (Mapper),    *)
(* its postprocessor and the map-entry projector (Mapfile), and the COFF   *)
(* container parser (CoffFile) with its string-table resolver.             *)
(*                                                                         *)
(* Option<T> is modelled as a sequence of length 0 (None) or 1 (Some).     *)
(* HashMap<usize, V> is modelled as a function whose DOMAIN is the key set.*)
(* A String is modelled as a TLA+ string in the Mapper part and as its     *)
(* UTF-8 byte sequence in the container part.                              *)
(***************************************************************************)
EXTENDS Integers, Sequences, FiniteSets, TLC

\* ------------------------------------------------------------------ bounds
\* Number of debug-info entries the tree walk records (structures, typedefs,
\* base types and globals).
MaxEntries == 3
\* Total number of recorded structure members over all structures.
MaxMembers == 2
\* Depth of nested build_struct calls the call stack can hold.
StackLimit == 6
\* Number of section headers a file image is written with.
MaxSections == 2
\* Number of children of the root of an entry tree walked as a whole.
MaxChildren == 2

\* -------------------------------------------------------- program constants
HEADER_LENGTH == 22
SECTION_HEADER_LENGTH == 48
SYMBOL_LENGTH == 18
\* Size of a section header's name field.
NAME_LENGTH == 8

VARIABLES
    typedefs,     \* Mapper.typedefs   : offset -> Typedef
    structs,      \* Mapper.structs    : offset -> Structure
    globals,      \* Mapper.globals    : sequence of Variable
    base_types,   \* Mapper.base_types : offset -> display name
    entries,      \* Mapfile.entries   : sequence of Entry
    phase,        \* position of the pipeline
    nEntries,     \* entries recorded so far by process_tree
    tdOrder,      \* iteration order of the typedefs HashMap, once fixed
    data,         \* the file buffer handed to CoffFile::parse
    outcome,      \* "unread", "read", then how CoffFile::parse ended
    coff,         \* the CoffFile built by parse (what was built, if it panicked)
    name_field,   \* the 8-byte field handed to StringTable::get_string
    resolved,     \* Option of what get_string did with name_field
    tree          \* the entry tree handed to process_tree as a whole, if any

mvars == <<typedefs, structs, globals, base_types, entries, phase, nEntries, tdOrder>>
cvars == <<data, outcome, coff, name_field, resolved>>
vars == <<mvars, cvars, tree>>

\* ----------------------------------------------------------------- helpers
None == <<>>
Some(x) == <<x>>

EmptyMap == [k \in {} |-> k]

\* HashMap::insert
Insert(m, k, v) == [x \in (DOMAIN m) \cup {k} |-> IF x = k THEN v ELSE m[x]]

\* HashMap::get(..).map(clone)
Get(m, k) == IF k \in DOMAIN m THEN Some(m[k]) ELSE None

\* The debug-info offset of the k-th recorded entry (offsets grow in visitation
\* order; the offsets of entries that record nothing are never looked up).
OffsetOf(k) == 10 * k

\* Offsets a DW_AT_type attribute can reference.
Offsets == {OffsetOf(k) : k \in 1..MaxEntries}

\* The offset of a type entry the walk records nothing for (a pointer type, an
\* array type, ...); a member can reference it.
UnrecordedType == OffsetOf(MaxEntries + 1)

\* Name attribute of the typedef visited as the k-th entry.
TypedefName(k) == <<"T1", "T2", "T3", "T4", "T5", "T6", "T7", "T8">>[k]

\* Number of members recorded in all structures.
RECURSIVE SumMembers(_, _)
SumMembers(S, keys) ==
    IF keys = {} THEN 0
    ELSE LET k == CHOOSE x \in keys : TRUE
         IN  Len(S[k].members) + SumMembers(S, keys \ {k})

\* ------------------------------------------------------------ Mapper::new
MapperNew ==
    /\ typedefs = EmptyMap
    /\ structs = EmptyMap
    /\ globals = <<>>
    /\ base_types = EmptyMap

NoCoff == [section_headers |-> <<>>, sections |-> <<>>, strings |-> <<>>, symbols |-> <<>>]

\* No file has been read yet.
NoFile ==
    /\ data = <<>>
    /\ outcome = "unread"
    /\ coff = NoCoff
    /\ name_field = <<>>
    /\ resolved = None

\* The Mapper before the walk.
MapperInit ==
    /\ MapperNew
    /\ entries = <<>>
    /\ phase = "walk"
    /\ nEntries = 0
    /\ tdOrder = <<>>

\* No entry tree is walked as a whole.
NoTree == <<>>

Init == MapperInit /\ NoFile /\ tree = NoTree

\* ------------------------------------------------- debug-info entry inputs
\* The code uses a debug-info offset only as a HashMap key, so a tree is
\* determined up to a renaming of offsets by which entries reference which.
\* The walks considered visit the base types first, then the structures, then
\* the typedefs, then the variables (references still point both backwards and
\* forwards); entries that record nothing are met anywhere.
\* A location-expression result: <<"Address", a>>, <<"Reloc", a>> or <<"Other">>.
\* An absent attribute is None; a present one is Some(value).

\* Children of a structure entry: DW_TAG_member entries carrying a name, a
\* type reference and a member location, and entries that process_struct_member
\* or process_struct_members skip.
GoodMember(nm, ref, off) ==
    [tag |-> "member", name |-> Some(nm), type |-> Some(ref), loc |-> Some(<<"Address", off>>)]

SkippedChildren ==
    { [tag |-> "member", name |-> None, type |-> Some(OffsetOf(1)), loc |-> Some(<<"Address", 0>>)],
      [tag |-> "member", name |-> Some("x"), type |-> None, loc |-> Some(<<"Address", 0>>)],
      [tag |-> "member", name |-> Some("x"), type |-> Some(OffsetOf(1)), loc |-> Some(<<"Other">>)],
      [tag |-> "member", name |-> Some("x"), type |-> Some(OffsetOf(1)), loc |-> None],
      [tag |-> "subprogram", name |-> Some("x"), type |-> Some(OffsetOf(1)), loc |-> Some(<<"Address", 0>>)] }

\* Member names and byte offsets follow the member's position in the structure.
MemberName(i) == <<"x", "y", "z", "w", "v", "u", "t", "s">>[i]

\* The child lists of a structure entry: up to n well-formed members (their
\* type references drawn from Offsets), optionally preceded by one skipped child.
RECURSIVE RefSeqs(_)
RefSeqs(n) ==
    IF n = 0 THEN {<<>>}
    ELSE LET shorter == RefSeqs(n - 1)
         IN  shorter \cup {Append(s, r) : s \in {t \in shorter : Len(t) = n - 1},
                                       r \in Offsets \cup {UnrecordedType}}

GoodChildren(refs) == [i \in 1..Len(refs) |-> GoodMember(MemberName(i), refs[i], 4 * (i - 1))]

ChildLists(n) ==
    {GoodChildren(refs) : refs \in RefSeqs(n)}
        \cup {<<c>> \o GoodChildren(refs) : c \in SkippedChildren, refs \in RefSeqs(0)}

\* The structure entries the walk can meet: a named structure with any child
\* list, or one whose name attribute is absent or not a string, with at most
\* one child.
StructEntries ==
    {[nameAttr |-> Some(<<"String", "S">>), children |-> c] : c \in ChildLists(MaxMembers)}
        \cup {[nameAttr |-> a, children |-> c] :
                 a \in {None, Some(<<"Other">>)}, c \in {l \in ChildLists(1) : Len(l) <= 1}}

\* ------------------------------------------- Mapper::process_struct_member
\* Returns Option<StructMember>.
ProcessStructMember(node) ==
    IF node.name = None THEN None
    ELSE IF node.type = None THEN None
    ELSE IF node.loc = None THEN None
    ELSE IF node.loc[1][1] # "Address" THEN None
    ELSE Some([name |-> node.name[1],
               type_offset |-> node.type[1],
               member_offset |-> node.loc[1][2],
               fields |-> <<>>])

\* ------------------------------------------ Mapper::process_struct_members
RECURSIVE ProcessStructMembers(_)
ProcessStructMembers(children) ==
    IF children = <<>> THEN <<>>
    ELSE LET child == Head(children)
             rest == ProcessStructMembers(Tail(children))
         IN  IF child.tag # "member" THEN rest
             ELSE ProcessStructMember(child) \o rest

\* ------------------------------------------------- Mapper::process_struct
\* nameAttr: None, Some(<<"String", s>>) or Some(<<"Other">>).
ProcessStruct(nameAttr, children) ==
    /\ phase = "walk"
    /\ nEntries < MaxEntries
    /\ LET name == IF nameAttr = None THEN None
                   ELSE IF nameAttr[1][1] = "String" THEN Some(nameAttr[1][2])
                   ELSE None
           offset == OffsetOf(nEntries + 1)
           members == ProcessStructMembers(children)
       IN  /\ DOMAIN typedefs = {} /\ globals = <<>>
           /\ SumMembers(structs, DOMAIN structs) + Len(members) <= MaxMembers
           /\ structs' = Insert(structs, offset,
                                [name |-> name, type_offset |-> offset, members |-> members])
    /\ nEntries' = nEntries + 1
    /\ UNCHANGED <<typedefs, globals, base_types, entries, phase, tdOrder>>
    /\ UNCHANGED <<cvars, tree>>

\* ------------------------------------------------ Mapper::process_typedef
\* nameAttr: None, Some(<<"String", s>>) or Some(<<"Other">>); typeAttr: Option<offset>.
ProcessTypedef(nameAttr, typeAttr) ==
    /\ phase = "walk"
    /\ nEntries < MaxEntries
    /\ globals = <<>>
    /\ typedefs' =
          IF nameAttr = None THEN typedefs
          ELSE IF nameAttr[1][1] # "String" THEN typedefs
          ELSE IF typeAttr = None THEN typedefs
          ELSE Insert(typedefs, OffsetOf(nEntries + 1),
                      [name |-> nameAttr[1][2], type_offset |-> typeAttr[1]])
    /\ nEntries' = IF typedefs' = typedefs THEN nEntries ELSE nEntries + 1
    /\ UNCHANGED <<structs, globals, base_types, entries, phase, tdOrder>>
    /\ UNCHANGED <<cvars, tree>>

\* --------------------------------------------------- Mapper::process_type
ProcessType(nameAttr) ==
    /\ phase = "walk"
    /\ nEntries < MaxEntries
    /\ DOMAIN structs = {} /\ DOMAIN typedefs = {} /\ globals = <<>>
    /\ base_types' =
          IF nameAttr = None THEN base_types
          ELSE Insert(base_types, OffsetOf(nEntries + 1), nameAttr[1])
    /\ nEntries' = IF base_types' = base_types THEN nEntries ELSE nEntries + 1
    /\ UNCHANGED <<typedefs, structs, globals, entries, phase, tdOrder>>
    /\ UNCHANGED <<cvars, tree>>

\* ----------------------------------------------- Mapper::process_variable
VariableEntries ==
    { [level |-> 1, name |-> Some("g"), type |-> Some(r), loc |-> Some(<<"Reloc", 4096>>)] : r \in Offsets }
        \cup
    { [level |-> 2, name |-> Some("g"), type |-> Some(OffsetOf(1)), loc |-> Some(<<"Reloc", 4096>>)],
      [level |-> 1, name |-> None, type |-> Some(OffsetOf(1)), loc |-> Some(<<"Reloc", 4096>>)],
      [level |-> 1, name |-> Some("g"), type |-> None, loc |-> Some(<<"Reloc", 4096>>)],
      [level |-> 1, name |-> Some("g"), type |-> Some(OffsetOf(1)), loc |-> Some(<<"Other">>)],
      [level |-> 1, name |-> Some("g"), type |-> Some(OffsetOf(1)), loc |-> None] }

\* What process_variable does with an entry visited at the given level:
\* [panic, push], push the Variable appended to globals, if any.  The
\* location is None, Some(<<"Reloc", addr>>) when evaluate() returns
\* RequiresRelocatedAddress(addr), Some(<<"Other">>) when it returns another
\* result, Some(<<"Error">>) when it returns Err, on which unwrap panics.
VariableOutcome(node, level) ==
    IF level > 1 THEN [panic |-> FALSE, push |-> None]
    ELSE IF node.name = None THEN [panic |-> FALSE, push |-> None]
    ELSE IF node.type = None THEN [panic |-> FALSE, push |-> None]
    ELSE IF node.loc = None THEN [panic |-> FALSE, push |-> None]
    ELSE IF node.loc[1][1] = "Error" THEN [panic |-> TRUE, push |-> None]
    ELSE IF node.loc[1][1] # "Reloc" THEN [panic |-> FALSE, push |-> None]
    ELSE [panic |-> FALSE,
          push |-> Some([address |-> node.loc[1][2],
                         name |-> node.name[1],
                         type_offset |-> node.type[1],
                         fields |-> <<>>])]

ProcessVariable(node) ==
    /\ phase = "walk"
    /\ nEntries < MaxEntries
    /\ LET o == VariableOutcome(node, node.level)
       IN  IF o.panic
           THEN \* the process is aborted and the Mapper is lost
                /\ phase' = "panic"
                /\ typedefs' = EmptyMap /\ structs' = EmptyMap
                /\ globals' = <<>> /\ base_types' = EmptyMap
                /\ nEntries' = 0
                /\ UNCHANGED <<entries, tdOrder>>
           ELSE /\ globals' = IF o.push = None THEN globals
                              ELSE Append(globals, o.push[1])
                /\ nEntries' = IF globals' = globals THEN nEntries ELSE nEntries + 1
                /\ UNCHANGED <<typedefs, structs, base_types, entries, phase, tdOrder>>
    /\ UNCHANGED <<cvars, tree>>

\* --------------------------------------------------- Mapper::process_tree
\* One visited entry, dispatched on its tag.  An entry with any other tag
\* records nothing; its children are the entries visited next.
ProcessOther ==
    /\ phase = "walk"
    /\ nEntries < MaxEntries
    /\ UNCHANGED <<typedefs, structs, globals, base_types, entries, phase, nEntries, tdOrder>>
    /\ UNCHANGED <<cvars, tree>>

ProcessTree ==
    \/ \E e \in StructEntries : ProcessStruct(e.nameAttr, e.children)
    \/ \E typeAttr \in {None} \cup {Some(r) : r \in Offsets \ {OffsetOf(nEntries + 1)}},
          nameAttr \in {None, Some(<<"Other">>), Some(<<"String", TypedefName(nEntries + 1)>>)} :
          ProcessTypedef(nameAttr, typeAttr)
    \/ \E node \in {v \in VariableEntries : v.type # Some(OffsetOf(nEntries + 1))} :
          ProcessVariable(node)
    \/ \E nameAttr \in {None, Some("int")} : ProcessType(nameAttr)
    \/ ProcessOther

\* ---------------------------------------------------- Mapper::postprocess
\* All orders in which a HashMap holding the keys K can be iterated.
RECURSIVE Orders(_)
Orders(K) ==
    IF K = {} THEN {<<>>}
    ELSE UNION {{<<k>> \o o : o \in Orders(K \ {k})} : k \in K}

\* One iteration of the typedef loop, on st = [structs, base_types].
TypedefStep(st, addr, td) ==
    LET s1 == IF td.type_offset \in DOMAIN st.structs
              THEN LET renamed == [st.structs EXCEPT ![td.type_offset].name = Some(td.name)]
                   IN  Insert(renamed, addr, renamed[td.type_offset])
              ELSE st.structs
        b1 == IF td.type_offset \in DOMAIN st.base_types
              THEN Insert(st.base_types, addr, st.base_types[td.type_offset])
              ELSE st.base_types
    IN  [structs |-> s1, base_types |-> b1]

\* The typedef loop, visiting the typedefs in the order ord.
RECURSIVE TypedefPass(_, _, _)
TypedefPass(st, tds, ord) ==
    IF ord = <<>> THEN st
    ELSE TypedefPass(TypedefStep(st, Head(ord), tds[Head(ord)]), tds, Tail(ord))

\* ---------------------------------------------------- Mapper::build_struct
\* S is self.structs, new is new_strcts, depth the number of build_struct
\* frames on the call stack.  The result carries the returned member list,
\* the updated new_strcts and whether the call stack was exhausted.
RECURSIVE BuildStruct(_, _, _, _)
RECURSIVE BuildMembers(_, _, _, _)

Overflowed(new) == [overflow |-> TRUE, ret |-> <<>>, new |-> new]

\* The loop over ret: a member whose type_offset is a key of self.structs
\* gets the flattened members of that structure as its fields.
BuildMembers(S, new, ms, depth) ==
    IF ms = <<>> THEN [overflow |-> FALSE, ret |-> <<>>, new |-> new]
    ELSE LET member == Head(ms)
             first == IF member.type_offset \in DOMAIN S
                      THEN BuildStruct(S, new, member.type_offset, depth + 1)
                      ELSE [overflow |-> FALSE, ret |-> member.fields, new |-> new]
         IN  IF first.overflow THEN first
             ELSE LET rest == BuildMembers(S, first.new, Tail(ms), depth)
                  IN  IF rest.overflow THEN rest
                      ELSE [overflow |-> FALSE,
                            ret |-> <<[member EXCEPT !.fields = first.ret]>> \o rest.ret,
                            new |-> rest.new]

\* build_struct storing its result under the structure's own type_offset
\* instead of under the key it was called for.
BuildStructKeyedByTypeOffset(S, new, strct_addr, depth) ==
    IF depth > StackLimit THEN Overflowed(new)
    ELSE LET r == BuildMembers(S, new, S[strct_addr].members, depth)
         IN  IF r.overflow THEN r
             ELSE [overflow |-> FALSE,
                   ret |-> r.ret,
                   new |-> Insert(r.new, S[strct_addr].type_offset,
                                  [S[strct_addr] EXCEPT !.members = r.ret])]

BuildStruct(S, new, strct_addr, depth) ==
    IF depth > StackLimit THEN Overflowed(new)
    ELSE LET r == BuildMembers(S, new, S[strct_addr].members, depth)
         IN  IF r.overflow THEN r
             ELSE [overflow |-> FALSE,
                   ret |-> r.ret,
                   new |-> Insert(r.new, strct_addr, [S[strct_addr] EXCEPT !.members = r.ret])]

\* The loop over the keys of self.structs that fills new_strcts.
RECURSIVE FlattenPass(_, _, _)
FlattenPass(S, new, addrs) ==
    IF addrs = {} THEN [overflow |-> FALSE, new |-> new]
    ELSE LET addr == CHOOSE a \in addrs : \A b \in addrs : a <= b
             r == BuildStruct(S, new, addr, 1)
         IN  IF r.overflow THEN [overflow |-> TRUE, new |-> r.new]
             ELSE FlattenPass(S, r.new, addrs \ {addr})

\* The loop over the globals.
AttachGlobals(gs, S) ==
    [i \in 1..Len(gs) |->
        IF gs[i].type_offset \in DOMAIN S
        THEN [gs[i] EXCEPT !.fields = S[gs[i].type_offset].members]
        ELSE gs[i]]

Postprocess ==
    /\ phase \in {"walk", "post"}
    /\ UNCHANGED <<cvars, tree>>
    /\ \E ord \in (IF phase = "walk" THEN Orders(DOMAIN typedefs) ELSE {tdOrder}) :
          LET st == TypedefPass([structs |-> structs, base_types |-> base_types], typedefs, ord)
              fl == FlattenPass(st.structs, EmptyMap, DOMAIN st.structs)
          IN  IF fl.overflow
              THEN \* the recursion exhausts the call stack: the process is
                   \* aborted and the Mapper is lost
                   /\ phase' = "stack_overflow"
                   /\ typedefs' = EmptyMap /\ structs' = EmptyMap
                   /\ globals' = <<>> /\ base_types' = EmptyMap
                   /\ tdOrder' = <<>>
                   /\ UNCHANGED <<entries, nEntries>>
              ELSE /\ structs' = fl.new
                   /\ base_types' = st.base_types
                   /\ globals' = AttachGlobals(globals, fl.new)
                   /\ phase' = "post"
                   /\ tdOrder' = ord
                   /\ UNCHANGED <<typedefs, entries, nEntries>>

\* -------------------------------------------------- Mapper::resolve_struct
ResolveStruct(offset) == Get(structs, offset)

\* ------------------------------------------------ Mapfile::member_to_entry
\* member_to_entry that does not descend into the member's fields.
MemberToEntryFlat(B, member) ==
    [addr |-> None,
     fields |-> <<>>,
     name |-> Some(member.name),
     typ |-> Get(B, member.type_offset),
     offset |-> Some(member.member_offset)]

\* member_to_entry looking the type name up by the member's byte offset.
RECURSIVE MemberToEntryByByteOffset(_, _)
MemberToEntryByByteOffset(B, member) ==
    [addr |-> None,
     fields |-> [i \in 1..Len(member.fields) |-> MemberToEntryByByteOffset(B, member.fields[i])],
     name |-> Some(member.name),
     typ |-> Get(B, member.member_offset),
     offset |-> Some(member.member_offset)]

RECURSIVE MemberToEntry(_, _)
MemberToEntry(B, member) ==
    [addr |-> None,
     fields |-> [i \in 1..Len(member.fields) |-> MemberToEntry(B, member.fields[i])],
     name |-> Some(member.name),
     typ |-> Get(B, member.type_offset),
     offset |-> Some(member.member_offset)]

\* ------------------------------------------------------------ Mapfile::new
GlobalToEntry(global) ==
    LET strct == ResolveStruct(global.type_offset)
    IN  [addr |-> Some(global.address),
         fields |-> IF strct = None THEN <<>>
                    ELSE [i \in 1..Len(strct[1].members) |->
                             MemberToEntry(base_types, strct[1].members[i])],
         name |-> Some(global.name),
         typ |-> Get(base_types, global.type_offset),
         offset |-> None]

\* The Mapper is passed by value: it is consumed by the call.
MapfileNew ==
    /\ phase = "post"
    /\ entries' = [i \in 1..Len(globals) |-> GlobalToEntry(globals[i])]
    /\ phase' = "mapped"
    /\ typedefs' = EmptyMap /\ structs' = EmptyMap
    /\ globals' = <<>> /\ base_types' = EmptyMap
    /\ tdOrder' = <<>>
    /\ UNCHANGED nEntries
    /\ UNCHANGED <<cvars, tree>>

\* ------------------------------------------------------------------- Next
Next ==
    \/ ProcessTree
    \/ Postprocess
    \/ MapfileNew

Spec == Init /\ [][Next]_vars

\* ================================================ the walk of a whole tree
\* process_tree applied to the root of an entry tree.  A node is
\* [tag, name, type, loc, offset, children]; m is the Mapper,
\* [typedefs, structs, globals, base_types, panic].

\* ------------------------------------------------- Mapper::process_struct
VisitStruct(m, node) ==
    LET name == IF node.name = None THEN None
                ELSE IF node.name[1][1] = "String" THEN Some(node.name[1][2])
                ELSE None
        members == ProcessStructMembers(node.children)
    IN  [m EXCEPT !.structs = Insert(m.structs, node.offset,
                     [name |-> name, type_offset |-> node.offset, members |-> members])]

\* ------------------------------------------------ Mapper::process_typedef
VisitTypedef(m, node) ==
    IF node.name = None THEN m
    ELSE IF node.name[1][1] # "String" THEN m
    ELSE IF node.type = None THEN m
    ELSE [m EXCEPT !.typedefs = Insert(m.typedefs, node.offset,
                      [name |-> node.name[1][2], type_offset |-> node.type[1]])]

\* --------------------------------------------------- Mapper::process_type
VisitType(m, node) ==
    IF node.name = None THEN m
    ELSE [m EXCEPT !.base_types = Insert(m.base_types, node.offset, node.name[1])]

\* ----------------------------------------------- Mapper::process_variable
VisitVariable(m, node, level) ==
    LET o == VariableOutcome(node, level)
    IN  IF o.panic THEN [m EXCEPT !.panic = TRUE]
        ELSE IF o.push = None THEN m
        ELSE [m EXCEPT !.globals = Append(m.globals, o.push[1])]

\* --------------------------------------------------- Mapper::process_tree
\* A panic ends the walk where it happens.
RECURSIVE ProcessTreeFrom(_, _, _)
RECURSIVE ProcessChildren(_, _, _)
ProcessTreeFrom(m, node, level) ==
    IF node.tag = "structure_type" THEN VisitStruct(m, node)
    ELSE IF node.tag = "typedef" THEN VisitTypedef(m, node)
    ELSE IF node.tag = "variable" THEN VisitVariable(m, node, level)
    ELSE IF node.tag = "base_type" THEN VisitType(m, node)
    ELSE ProcessChildren(m, node.children, level + 1)

\* The loop over the children of an entry with any other tag.
ProcessChildren(m, children, level) ==
    IF children = <<>> THEN m
    ELSE LET m1 == ProcessTreeFrom(m, Head(children), level)
         IN  IF m1.panic THEN m1
             ELSE ProcessChildren(m1, Tail(children), level)

\* ------------------------------------------------------------ entry trees
Node(tag, name, type, loc, offset, children) ==
    [tag |-> tag, name |-> name, type |-> type, loc |-> loc,
     offset |-> offset, children |-> children]

\* A variable entry without children; offset 0 stands for an offset no
\* collection is keyed by.
VariableNode(name, type, loc) == Node("variable", name, type, loc, 0, <<>>)

\* An entry with a tag process_tree does not dispatch on (a compile unit, a
\* subprogram, a lexical block).
OtherNode(tag, children) == Node(tag, None, None, None, 0, children)

\* Variables as they are met below the root's children: at depth 2.
NestedVariables ==
    { VariableNode(Some("h"), Some(OffsetOf(1)), Some(<<"Reloc", 12288>>)),
      VariableNode(Some("h"), Some(OffsetOf(1)), Some(<<"Error">>)) }

\* The entries met as children of the root: at depth 1.
TopLevelNodes ==
    { VariableNode(Some("g"), Some(OffsetOf(1)), Some(<<"Reloc", 4096>>)),
      VariableNode(Some("k"), Some(OffsetOf(2)), Some(<<"Reloc", 8192>>)),
      VariableNode(None, Some(OffsetOf(1)), Some(<<"Reloc", 4096>>)),
      VariableNode(Some("g"), None, Some(<<"Reloc", 4096>>)),
      VariableNode(Some("g"), Some(OffsetOf(1)), None),
      VariableNode(Some("g"), Some(OffsetOf(1)), Some(<<"Other">>)),
      VariableNode(Some("g"), Some(OffsetOf(1)), Some(<<"Error">>)),
      OtherNode("subprogram", <<>>),
      Node("structure_type", Some(<<"String", "S">>), None, None, OffsetOf(1),
           <<Node("member", Some("x"), Some(UnrecordedType), Some(<<"Address", 0>>), 0, <<>>),
             VariableNode(Some("h"), Some(OffsetOf(1)), Some(<<"Reloc", 12288>>))>>),
      Node("typedef", Some(<<"String", "T">>), Some(OffsetOf(1)), None, OffsetOf(2), <<>>),
      Node("base_type", Some("int"), None, None, OffsetOf(3), <<>>) }
        \cup {OtherNode("subprogram", <<v>>) : v \in NestedVariables}

\* The trees: a compile unit with up to MaxChildren children.
Trees ==
    {OtherNode("compile_unit", c) :
        c \in UNION {[1..n -> TopLevelNodes] : n \in 0..MaxChildren}}

InitWalk ==
    /\ MapperInit
    /\ NoFile
    /\ tree \in Trees

\* -------------------------------------- process_tree(root, 0, unit), whole
WalkTree ==
    /\ phase = "walk"
    /\ tree # NoTree
    /\ LET m == ProcessTreeFrom([typedefs |-> typedefs, structs |-> structs,
                                 globals |-> globals, base_types |-> base_types,
                                 panic |-> FALSE], tree, 0)
       IN  IF m.panic
           THEN \* the process is aborted and the Mapper is lost
                /\ phase' = "panic"
                /\ typedefs' = EmptyMap /\ structs' = EmptyMap
                /\ globals' = <<>> /\ base_types' = EmptyMap
           ELSE /\ phase' = "walked"
                /\ typedefs' = m.typedefs /\ structs' = m.structs
                /\ globals' = m.globals /\ base_types' = m.base_types
    /\ UNCHANGED <<entries, nEntries, tdOrder, tree>>
    /\ UNCHANGED cvars

NextWalk == WalkTree

SpecWalk == InitWalk /\ [][NextWalk]_vars

\* ===================================================== container parser
\* Bytes are the integers 0..255; a buffer is a sequence of bytes.  A Rust
\* index k is the TLA+ index k + 1.  usize is 64 bits wide, so no sum of two
\* 32-bit fields wraps.

\* The Rust slice &data[a..b]; the caller has checked a <= b <= Len(data).
Slice(bytes, a, b) == SubSeq(bytes, a + 1, b)

\* Whether &data[a..b] is a valid slice (it panics when it is not).
SliceOk(bytes, a, b) == a <= b /\ b <= Len(bytes)

\* ------------------------------------------------------- parse::read_u16
\* Little-endian; needs offset + 1 < Len(bytes), else the index panics.
read_u16(bytes, offset) == bytes[offset + 1] + 256 * bytes[offset + 2]

\* ------------------------------------------------------- parse::read_u32
\* Needs offset + 3 < Len(bytes), else the index panics.
read_u32(bytes, offset) ==
    LET lo == read_u16(bytes, offset)
        hi == read_u16(bytes, offset + 2)
    IN  lo + 65536 * hi

\* Whether an n-byte read at offset stays inside the buffer.
ReadOk(bytes, offset, n) == offset + n <= Len(bytes)

\* --------------------------------------------------- std::str::from_utf8
\* Whether the byte sequence is well-formed UTF-8.
IsCont(b) == b >= 128 /\ b <= 191

RECURSIVE ValidUtf8(_)
ValidUtf8(bytes) ==
    IF bytes = <<>> THEN TRUE
    ELSE LET b == bytes[1]
             n == Len(bytes)
         IN  IF b < 128 THEN ValidUtf8(Tail(bytes))
             ELSE IF b >= 194 /\ b <= 223
             THEN n >= 2 /\ IsCont(bytes[2]) /\ ValidUtf8(SubSeq(bytes, 3, n))
             ELSE IF b >= 224 /\ b <= 239
             THEN /\ n >= 3
                  /\ IsCont(bytes[2]) /\ IsCont(bytes[3])
                  /\ (b = 224 => bytes[2] >= 160)
                  /\ (b = 237 => bytes[2] <= 159)
                  /\ ValidUtf8(SubSeq(bytes, 4, n))
             ELSE IF b >= 240 /\ b <= 244
             THEN /\ n >= 4
                  /\ IsCont(bytes[2]) /\ IsCont(bytes[3]) /\ IsCont(bytes[4])
                  /\ (b = 240 => bytes[2] >= 144)
                  /\ (b = 244 => bytes[2] <= 143)
                  /\ ValidUtf8(SubSeq(bytes, 5, n))
             ELSE FALSE

\* range.iter().take_while(|x| *x != 0): the bytes before the first NUL.
RECURSIVE TakeWhileNonZero(_)
TakeWhileNonZero(bytes) ==
    IF bytes = <<>> THEN <<>>
    ELSE IF bytes[1] = 0 THEN <<>>
    ELSE <<bytes[1]>> \o TakeWhileNonZero(Tail(bytes))

\* ------------------------------------------------ StringTable::get_string
\* field is the 8-byte name field, table the string table's bytes.  The
\* result is [panic, value]: value is the Option<String> returned when the
\* call does not panic.
GetStringWholeRange(table, field) ==
    LET string_ptr == read_u32(field, 4)
    IN  IF field[1] = 0 /\ ~SliceOk(table, string_ptr, Len(table))
        THEN [panic |-> TRUE, value |-> None]
        ELSE LET range == IF field[1] = 0 THEN Slice(table, string_ptr, Len(table))
                          ELSE field
             IN  [panic |-> FALSE,
                  value |-> IF ValidUtf8(range) THEN Some(range) ELSE None]

GetString(table, field) ==
    LET string_ptr == read_u32(field, 4)
    IN  IF field[1] = 0 /\ ~SliceOk(table, string_ptr, Len(table))
        THEN [panic |-> TRUE, value |-> None]
        ELSE LET range == IF field[1] = 0 THEN Slice(table, string_ptr, Len(table))
                          ELSE field
                 non_zero == TakeWhileNonZero(range)
             IN  [panic |-> FALSE,
                  value |-> IF ValidUtf8(non_zero) THEN Some(non_zero) ELSE None]

\* ----------------------------------------------------------------- Header
\* The getters of Header, on the whole file buffer.
number_of_sections(hdr) == hdr[3] + 256 * hdr[4]
symbol_table_start(hdr) == read_u32(hdr, 8)
symbol_table_size(hdr) == read_u32(hdr, 12)
optional_header_size(hdr) == read_u16(hdr, 16)

\* ----------------------------------------------------------- SectionHeader
section_start_addr(header) == read_u32(header.data, 20)
section_length(header) == read_u32(header.data, 16)

\* ---------------------------------------------------- SectionHeader::parse
\* [panic, header]: get_string may panic, and unwrap panics on None.
SectionHeaderParse(header_data, strings) ==
    LET r == GetString(strings, Slice(header_data, 0, 8))
    IN  IF r.panic \/ r.value = None
        THEN [panic |-> TRUE, header |-> <<>>]
        ELSE [panic |-> FALSE, header |-> [data |-> header_data, name |-> r.value[1]]]

\* --------------------------------------------------- SectionHeaders::parse
\* The loop from header k on; [panic, headers].
RECURSIVE SectionHeadersFrom(_, _, _, _)
SectionHeadersFrom(bytes, strings, num_sections, k) ==
    IF k >= num_sections THEN [panic |-> FALSE, headers |-> <<>>]
    ELSE LET header_data == Slice(bytes, k * SECTION_HEADER_LENGTH,
                                  (k + 1) * SECTION_HEADER_LENGTH)
             h == SectionHeaderParse(header_data, strings)
         IN  IF h.panic THEN [panic |-> TRUE, headers |-> <<>>]
             ELSE LET rest == SectionHeadersFrom(bytes, strings, num_sections, k + 1)
                  IN  [panic |-> rest.panic,
                       headers |-> IF rest.panic THEN <<>> ELSE <<h.header>> \o rest.headers]

SectionHeadersParse(bytes, strings, num_sections) ==
    IF Len(bytes) # num_sections * SECTION_HEADER_LENGTH
    THEN [panic |-> TRUE, headers |-> <<>>]
    ELSE SectionHeadersFrom(bytes, strings, num_sections, 0)

\* ------------------------------------------------------ StringTable::parse
\* Whether the table's length field can be read and equals its size.
StringTableOk(bytes) == ReadOk(bytes, 0, 4) /\ read_u32(bytes, 0) = Len(bytes)

\* -------------------------------------- CoffFile::parse, the section loop
\* [panic, sections]: sections holds what had been pushed when the loop
\* ended, by running out of headers or by a slice panicking.
RECURSIVE SectionsKeepingEmpty(_, _, _)
SectionsKeepingEmpty(bytes, headers, done) ==
    IF headers = <<>> THEN [panic |-> FALSE, sections |-> done]
    ELSE LET header == Head(headers)
             start_addr == section_start_addr(header)
             end_addr == start_addr + section_length(header)
         IN  IF ~SliceOk(bytes, start_addr, end_addr)
             THEN [panic |-> TRUE, sections |-> done]
             ELSE SectionsKeepingEmpty(bytes, Tail(headers),
                      Append(done, [header |-> header,
                                    data |-> Slice(bytes, start_addr, end_addr)]))

RECURSIVE Sections(_, _, _)
Sections(bytes, headers, done) ==
    IF headers = <<>> THEN [panic |-> FALSE, sections |-> done]
    ELSE LET header == Head(headers)
             start_addr == section_start_addr(header)
             end_addr == start_addr + section_length(header)
         IN  IF start_addr = 0 \/ section_length(header) = 0
             THEN Sections(bytes, Tail(headers), done)
             ELSE IF ~SliceOk(bytes, start_addr, end_addr)
             THEN [panic |-> TRUE, sections |-> done]
             ELSE Sections(bytes, Tail(headers),
                      Append(done, [header |-> header,
                                    data |-> Slice(bytes, start_addr, end_addr)]))

\* --------------------------------------------------- CoffFile::parse_header
ParseHeader(bytes) == [ok |-> TRUE, header |-> bytes]

\* ---------------------------------------------------------- CoffFile::parse
\* [outcome, coff]: outcome is "Ok", "Err" or "panic"; after a panic coff
\* holds the parts that had been built.
Panicked(sections) == [outcome |-> "panic", coff |-> [NoCoff EXCEPT !.sections = sections]]

CoffParse(bytes) ==
    LET hdr == ParseHeader(bytes)
    IN  IF ~hdr.ok THEN [outcome |-> "Err", coff |-> NoCoff]
        ELSE IF ~ReadOk(bytes, 16, 2) THEN Panicked(<<>>)
        ELSE
        LET header == hdr.header
            section_headers_start_addr == optional_header_size(header) + HEADER_LENGTH
            section_headers_end_addr ==
                section_headers_start_addr
                    + number_of_sections(header) * SECTION_HEADER_LENGTH
            symbol_table_start_addr == symbol_table_start(header)
            symbol_table_end ==
                symbol_table_start_addr + symbol_table_size(header) * SYMBOL_LENGTH
        IN  IF ~SliceOk(bytes, section_headers_start_addr, section_headers_end_addr)
            THEN Panicked(<<>>)
            ELSE IF ~SliceOk(bytes, symbol_table_start_addr, symbol_table_end)
            THEN Panicked(<<>>)
            ELSE
            LET section_header_data ==
                    Slice(bytes, section_headers_start_addr, section_headers_end_addr)
                symbol_table_data == Slice(bytes, symbol_table_start_addr, symbol_table_end)
                string_table_data == Slice(bytes, symbol_table_end, Len(bytes))
            IN  IF ~StringTableOk(string_table_data) THEN Panicked(<<>>)
                ELSE
                LET shs == SectionHeadersParse(section_header_data, string_table_data,
                                               number_of_sections(header))
                IN  IF shs.panic THEN Panicked(<<>>)
                    ELSE
                    LET secs == Sections(bytes, shs.headers, <<>>)
                    IN  IF secs.panic THEN Panicked(secs.sections)
                        ELSE [outcome |-> "Ok",
                              coff |-> [section_headers |-> shs.headers,
                                        sections |-> secs.sections,
                                        strings |-> string_table_data,
                                        symbols |-> symbol_table_data]]

\* ------------------------------------------------------------ file images
\* The byte images CoffFile::parse is run on, laid out as the parser reads
\* them: header, optional header, section headers, section payload, symbol
\* table, string table.
U16LE(n) == <<n % 256, (n \div 256) % 256>>
U32LE(n) == U16LE(n % 65536) \o U16LE(n \div 65536)
Zeros(n) == [i \in 1..n |-> 0]

\* A name written inline into the NUL-padded name field.
InlineField(name) == name \o Zeros(NAME_LENGTH - Len(name))
\* A name field that refers to the string table.
IndirectField(string_ptr) == Zeros(4) \o U32LE(string_ptr)

DotText == <<46, 116, 101, 120, 116>>
DotSysmem == <<46, 115, 121, 115, 109, 101, 109>>
DotEsysmem == <<46, 101, 115, 121, 115, 109, 101, 109>>
DotDebugInfo == <<46, 100, 101, 98, 117, 103, 95, 105, 110, 102, 111>>
EAcute == <<195, 169>>
NotText == <<255>>

\* A string table: its length field, ".debug_info" at offset 4, a string
\* that is not UTF-8 at offset 16, and "ab" running to the table end at 18.
StringTableImage(len) == U32LE(len) \o DotDebugInfo \o <<0>> \o NotText \o <<0, 97, 98>>
StringTableLength == Len(StringTableImage(0))

Payload == <<161, 162, 163, 164>>

\* What one section header is written from: its name field, where its data
\* starts (None: start address 0, Some(r): r bytes into the payload) and its
\* declared length.
SectionInputs ==
    { [field |-> InlineField(DotText), at |-> Some(0), len |-> 2],
      [field |-> IndirectField(4), at |-> Some(2), len |-> 2],
      [field |-> InlineField(<<>>), at |-> Some(0), len |-> 2],
      [field |-> InlineField(DotSysmem), at |-> None, len |-> 2],
      [field |-> InlineField(DotEsysmem), at |-> Some(0), len |-> 0],
      [field |-> IndirectField(200), at |-> Some(0), len |-> 2],
      [field |-> InlineField(NotText), at |-> Some(0), len |-> 2],
      [field |-> InlineField(DotText), at |-> Some(0), len |-> 500],
      [field |-> IndirectField(16), at |-> Some(0), len |-> 2],
      [field |-> InlineField(EAcute), at |-> Some(2), len |-> 2],
      [field |-> IndirectField(18), at |-> Some(0), len |-> 4] }

SectionInputSeqs == UNION {[1..n -> SectionInputs] : n \in 0..MaxSections}

\* How the header of an image departs from its contents, if it does.
Faults == {"none", "count", "symtab", "strlen", "short"}

SectionHeaderImage(sec, payload_start) ==
    sec.field \o Zeros(8) \o U32LE(sec.len)
        \o U32LE(IF sec.at = None THEN 0 ELSE payload_start + sec.at[1])
        \o Zeros(24)

RECURSIVE SectionHeaderImages(_, _)
SectionHeaderImages(secs, payload_start) ==
    IF secs = <<>> THEN <<>>
    ELSE SectionHeaderImage(Head(secs), payload_start)
             \o SectionHeaderImages(Tail(secs), payload_start)

FileImage(secs, fault, opt_len) ==
    LET n == Len(secs)
        payload_start == HEADER_LENGTH + opt_len + n * SECTION_HEADER_LENGTH
        symbols_start == payload_start + Len(Payload)
        whole ==
            <<194, 0>>
            \o U16LE(IF fault = "count" THEN n + 20 ELSE n)
            \o Zeros(4)
            \o U32LE(IF fault = "symtab" THEN symbols_start + 1000 ELSE symbols_start)
            \o U32LE(1)
            \o U16LE(opt_len)
            \o Zeros(2)
            \o U16LE(157)
            \o Zeros(opt_len)
            \o SectionHeaderImages(secs, payload_start)
            \o Payload
            \o Zeros(SYMBOL_LENGTH)
            \o StringTableImage(IF fault = "strlen" THEN StringTableLength + 1
                                ELSE StringTableLength)
    IN  IF fault = "short" THEN SubSeq(whole, 1, 10) ELSE whole

\* ------------------------------------------------------------- main: read
\* The file is read into the buffer.
ReadFile ==
    /\ outcome = "unread"
    /\ resolved = None /\ name_field = <<>>
    /\ \E secs \in SectionInputSeqs, fault \in Faults, opt_len \in {0, 2} :
          data' = FileImage(secs, fault, opt_len)
    /\ outcome' = "read"
    /\ UNCHANGED <<coff, name_field, resolved>>
    /\ UNCHANGED <<mvars, tree>>

\* ---------------------------------------------------------- CoffFile::parse
Parse ==
    /\ outcome = "read"
    /\ LET r == CoffParse(data)
       IN  /\ outcome' = r.outcome
           /\ coff' = r.coff
    /\ UNCHANGED <<data, name_field, resolved>>
    /\ UNCHANGED <<mvars, tree>>

NextCoff ==
    \/ ReadFile
    \/ Parse

SpecCoff == Init /\ [][NextCoff]_vars

\* ------------------------------------------------ StringTable::get_string
\* The string tables and name fields get_string is applied to.
StringTables == {U32LE(4), StringTableImage(StringTableLength)}

RECURSIVE TextsOver(_, _)
TextsOver(alphabet, n) ==
    IF n = 0 THEN {<<>>}
    ELSE LET shorter == TextsOver(alphabet, n - 1)
         IN  shorter \cup {<<c>> \o t : c \in alphabet, t \in {u \in shorter : Len(u) = n - 1}}

NameFields ==
    {InlineField(t) : t \in TextsOver({46, 116}, NAME_LENGTH)}
        \cup {InlineField(EAcute), InlineField(NotText), InlineField(<<116, 195>>)}
        \cup {IndirectField(p) : p \in {0, 4, 10, 16, 18, 19, 20, 21, 200}}
        \cup {<<0, 116, 116, 116>> \o U32LE(4)}

InitNames ==
    /\ MapperInit
    /\ data = <<>>
    /\ outcome = "unread"
    /\ \E table \in StringTables : coff = [NoCoff EXCEPT !.strings = table]
    /\ name_field \in NameFields
    /\ resolved = None
    /\ tree = NoTree

ResolveName ==
    /\ resolved = None
    /\ name_field # <<>>
    /\ resolved' = Some(GetString(coff.strings, name_field))
    /\ UNCHANGED <<data, outcome, coff, name_field>>
    /\ UNCHANGED <<mvars, tree>>

NextNames == ResolveName

SpecNames == InitNames /\ [][NextNames]_vars

\* ================================================================= claims

\* C1. Cycle safety: whatever structures reference each other (a structure
\* with a member of its own type, two structures with members of each other's
\* type, a cycle closed through a typedef alias), postprocess / build_struct
\* terminates: the recursion never exhausts the call stack.
C1_CycleSafety == phase # "stack_overflow"

\* C2. Idempotence: running postprocess on an already postprocessed Mapper
\* leaves structs, base_types and every global's fields as they were.
C2_PostprocessIdempotent ==
    [][(phase = "post" /\ phase' = "post") =>
          (structs' = structs /\ base_types' = base_types /\ globals' = globals)]_vars

\* C3. Typedef aliasing: after postprocess, for every typedef whose referenced
\* type offset is a known structure, resolve_struct succeeds for the typedef's
\* offset and for the structure's offset, both return the same member list,
\* and the structure found under the typedef's offset carries the typedef's
\* name.
C3_TypedefAliasing ==
    phase = "post" =>
        \A t \in DOMAIN typedefs :
            typedefs[t].type_offset \in DOMAIN structs =>
                LET byTypedef == ResolveStruct(t)
                    byStruct == ResolveStruct(typedefs[t].type_offset)
                IN  /\ byTypedef # None
                    /\ byStruct # None
                    /\ byTypedef[1].members = byStruct[1].members
                    /\ byTypedef[1].name = Some(typedefs[t].name)

\* C4. At every nesting level of every structure's member tree and of every
\* global's field tree, a member has fields only if its type_offset is a key
\* of structs.
RECURSIVE FieldsOnlyForStructs(_, _)
FieldsOnlyForStructs(K, members) ==
    \A i \in 1..Len(members) :
        /\ members[i].fields # <<>> => members[i].type_offset \in K
        /\ FieldsOnlyForStructs(K, members[i].fields)

C4_FieldsOnlyForStructs ==
    /\ \A a \in DOMAIN structs : FieldsOnlyForStructs(DOMAIN structs, structs[a].members)
    /\ \A i \in 1..Len(globals) : FieldsOnlyForStructs(DOMAIN structs, globals[i].fields)

\* A postprocessed state in which a member of an alias-typed or structure-typed
\* member tree is populated, next to a member of a type that is no structure.
C4_Witness ==
    /\ phase = "post"
    /\ \E a \in DOMAIN structs : \E i \in 1..Len(structs[a].members) :
          /\ structs[a].members[i].fields # <<>>
          /\ \E j \in 1..Len(structs[a].members[i].fields) :
                structs[a].members[i].fields[j].type_offset \notin DOMAIN structs

\* C5. Global attachment: Mapfile::new yields one entry per recorded global, in
\* recording order, with the global's name and address; its fields mirror the
\* member tree of the structure at the global's type offset, which is fully
\* flattened (every member of a known structure type carries that structure's
\* members, every other member carries none); a global whose type offset is
\* no known structure gets no fields.
RECURSIVE FullyFlattened(_, _)
FullyFlattened(S, members) ==
    \A i \in 1..Len(members) :
        /\ members[i].fields =
              (IF members[i].type_offset \in DOMAIN S THEN S[members[i].type_offset].members
               ELSE <<>>)
        /\ FullyFlattened(S, members[i].fields)

RECURSIVE MirrorsMembers(_, _)
MirrorsMembers(es, members) ==
    /\ Len(es) = Len(members)
    /\ \A i \in 1..Len(es) :
          /\ es[i].name = Some(members[i].name)
          /\ es[i].offset = Some(members[i].member_offset)
          /\ es[i].addr = None
          /\ MirrorsMembers(es[i].fields, members[i].fields)

C5_GlobalAttachment ==
    [][(phase = "post" /\ phase' = "mapped") =>
          /\ Len(entries') = Len(globals)
          /\ \A i \in 1..Len(globals) :
                /\ entries'[i].name = Some(globals[i].name)
                /\ entries'[i].addr = Some(globals[i].address)
                /\ IF globals[i].type_offset \in DOMAIN structs
                   THEN /\ FullyFlattened(structs, structs[globals[i].type_offset].members)
                        /\ MirrorsMembers(entries'[i].fields,
                                          structs[globals[i].type_offset].members)
                   ELSE entries'[i].fields = <<>>]_vars

\* Two globals projected in order: the first with a nested field tree, the
\* second of an unknown type with no fields.
C5_Witness ==
    /\ phase = "mapped"
    /\ Len(entries) = 2
    /\ entries[1].fields # <<>>
    /\ entries[2].fields = <<>>

\* C6. End to end: base type "int" at offset 10, one structure at offset 20
\* with the single member "x" (type reference 10, byte offset 0), one global
\* "g" (type reference 20, address 4096) project to exactly one entry
\* {name "g", addr 4096, fields [{name "x", type "int", offset 0}]}, with no
\* type and no offset on the entry and no addr and no fields on the member.
ScenarioEntry ==
    [addr |-> Some(4096), name |-> Some("g"), typ |-> None, offset |-> None,
     fields |-> << [addr |-> None, name |-> Some("x"), typ |-> Some("int"),
                    offset |-> Some(0), fields |-> <<>>] >>]

ScenarioRecorded ==
    /\ DOMAIN base_types = {10} /\ base_types[10] = "int"
    /\ DOMAIN typedefs = {}
    /\ DOMAIN structs = {20}
    /\ Len(structs[20].members) = 1
    /\ structs[20].members[1].name = "x"
    /\ structs[20].members[1].type_offset = 10
    /\ structs[20].members[1].member_offset = 0
    /\ Len(globals) = 1
    /\ globals[1].name = "g"
    /\ globals[1].type_offset = 20
    /\ globals[1].address = 4096

C6_EndToEnd ==
    [][(phase = "post" /\ ScenarioRecorded /\ phase' = "mapped") =>
          entries' = <<ScenarioEntry>>]_vars

C6_Witness == phase = "mapped" /\ entries = <<ScenarioEntry>>

\* ------------------------------------------------- container: vocabulary
\* CoffFile::parse has run on the buffer.
Parsed == outcome \in {"Ok", "Err", "panic"}

\* Where the k-th section header lies in the buffer, by the file header.
HeaderAt(bytes, k) ==
    HEADER_LENGTH + optional_header_size(bytes) + k * SECTION_HEADER_LENGTH

\* The file header, the section-header table or the symbol table, as the
\* file header declares them, runs beyond the buffer.
TablesOverrun(bytes) ==
    \/ Len(bytes) < HEADER_LENGTH
    \/ HeaderAt(bytes, number_of_sections(bytes)) > Len(bytes)
    \/ symbol_table_start(bytes) + symbol_table_size(bytes) * SYMBOL_LENGTH > Len(bytes)

\* Start address and length the k-th section header declares.
DeclaredStart(bytes, k) == read_u32(bytes, HeaderAt(bytes, k) + 20)
DeclaredLength(bytes, k) == read_u32(bytes, HeaderAt(bytes, k) + 16)

\* The k-th header declares section data (nonzero start and length).
HasData(bytes, k) == DeclaredStart(bytes, k) # 0 /\ DeclaredLength(bytes, k) # 0

\* Some header's declared data range runs beyond the buffer.
SectionOverrun(bytes) ==
    /\ ~TablesOverrun(bytes)
    /\ \E k \in 0..(number_of_sections(bytes) - 1) :
          /\ HasData(bytes, k)
          /\ DeclaredStart(bytes, k) + DeclaredLength(bytes, k) > Len(bytes)

\* The bytes after the symbol table: the string table.
StringTableOf(bytes) ==
    SubSeq(bytes,
           symbol_table_start(bytes) + symbol_table_size(bytes) * SYMBOL_LENGTH + 1,
           Len(bytes))

\* The layout the headers declare fits the buffer and the string table's
\* length field states its size.
WellFormedLayout(bytes) ==
    /\ ~TablesOverrun(bytes)
    /\ ~SectionOverrun(bytes)
    /\ Len(StringTableOf(bytes)) >= 4
    /\ read_u32(StringTableOf(bytes), 0) = Len(StringTableOf(bytes))

\* The name field of the k-th section header.
NameFieldAt(bytes, k) == SubSeq(bytes, HeaderAt(bytes, k) + 1, HeaderAt(bytes, k) + NAME_LENGTH)

\* The name field cannot be decoded against the string table: its offset is
\* out of range or the bytes are not text.
Undecodable(table, field) ==
    LET r == GetString(table, field) IN r.panic \/ r.value = None

\* C7. Malformed container: when the header arithmetic overruns the buffer
\* (the section-header table, the symbol table or a section's data range ends
\* beyond the file), CoffFile::parse returns the error outcome, and no
\* Section has been materialized when it does.
C7_MalformedContainer ==
    (Parsed /\ (TablesOverrun(data) \/ SectionOverrun(data)))
        => (outcome = "Err" /\ coff.sections = <<>>)

\* A container whose layout is well formed and whose names all decode.
ValidContainer(bytes) ==
    /\ WellFormedLayout(bytes)
    /\ \A k \in 0..(number_of_sections(bytes) - 1) :
          ~Undecodable(StringTableOf(bytes), NameFieldAt(bytes, k))

\* The headers, by index, that declare section data.
WithData(bytes) == {k \in 0..(number_of_sections(bytes) - 1) : HasData(bytes, k)}

\* C8. Section materialization: for every valid container parse succeeds and
\* keeps number_of_sections() section headers; the section list holds, in
\* header order, exactly one Section per header whose start and length are
\* both nonzero and none for the others; a Section's data is the buffer slice
\* [start, start + length), so it is as long as its header declares.
C8_SectionMaterialization ==
    (Parsed /\ ValidContainer(data)) =>
        /\ outcome = "Ok"
        /\ Len(coff.section_headers) = number_of_sections(data)
        /\ Len(coff.sections) = Cardinality(WithData(data))
        /\ \A k \in WithData(data) :
              LET j == Cardinality({i \in WithData(data) : i <= k})
                  section == coff.sections[j]
                  start == DeclaredStart(data, k)
              IN  /\ section.header = coff.section_headers[k + 1]
                  /\ section.header.data =
                        SubSeq(data, HeaderAt(data, k) + 1, HeaderAt(data, k + 1))
                  /\ Len(section.data) = DeclaredLength(data, k)
                  /\ \A b \in 1..Len(section.data) : section.data[b] = data[start + b]

\* Two headers, the first without data (start address zero) and the second
\* with two bytes of the payload: one Section, the second header's.
C8_Witness ==
    /\ outcome = "Ok"
    /\ Len(coff.section_headers) = 2
    /\ ~HasData(data, 0) /\ HasData(data, 1)
    /\ Len(coff.sections) = 1
    /\ coff.sections[1].header.name = DotDebugInfo
    /\ coff.sections[1].data = <<163, 164>>

\* ------------------------------------------------ name resolution: vocabulary
\* A text of at least lo and at most hi characters, none of them NUL, as its
\* UTF-8 bytes.
IsName(text, lo, hi) ==
    /\ Len(text) >= lo /\ Len(text) <= hi
    /\ \A i \in 1..Len(text) : text[i] # 0
    /\ ValidUtf8(text)

\* The string-table offset a name field encodes in its bytes 4..8.
StringPtr(field) == field[5] + 256 * field[6] + 65536 * (field[7] + 256 * field[8])

\* The bytes of the table from offset up to, not including, the next NUL
\* byte or the table end.
StringAt(table, offset) ==
    LET n == CHOOSE n \in 0..(Len(table) - offset) :
                 /\ \A j \in 1..n : table[offset + j] # 0
                 /\ (offset + n = Len(table) \/ table[offset + n + 1] = 0)
    IN  SubSeq(table, offset + 1, offset + n)

\* get_string returned exactly the text.
Returned(text) == resolved = Some([panic |-> FALSE, value |-> Some(text)])

\* Inline names of lo..7 characters come back as written.
InlineRoundTrip(lo) ==
    \A n \in lo..(NAME_LENGTH - 1) :
        LET name == SubSeq(name_field, 1, n)
        IN  (IsName(name, lo, NAME_LENGTH - 1) /\ name_field = InlineField(name))
                => Returned(name)

\* The field refers to the string table at an offset inside it.
RefersInBounds == name_field[1] = 0 /\ StringPtr(name_field) < Len(coff.strings)

\* C9 as stated. Name resolution round trip: for any name of at most 7
\* non-NUL characters, get_string applied to the name written into the 8-byte
\* NUL-padded field returns the original text; and for any field whose byte 0
\* is zero and whose bytes 4..8 encode an in-bounds string-table offset,
\* get_string returns exactly the bytes from that offset up to the next NUL
\* byte or the table end.
C9_RoundTrip ==
    resolved # None =>
        /\ InlineRoundTrip(0)
        /\ RefersInBounds => Returned(StringAt(coff.strings, StringPtr(name_field)))

\* C9 amended. For any name of 1 to 7 non-NUL characters, get_string applied
\* to the name written into the 8-byte NUL-padded field returns the original
\* text; and for any field whose byte 0 is zero and whose bytes 4..8 encode an
\* in-bounds string-table offset, get_string returns exactly the bytes from
\* that offset up to the next NUL byte or the table end when those bytes are
\* valid UTF-8, and none when they are not.
C9_RoundTripAmended ==
    resolved # None =>
        /\ InlineRoundTrip(1)
        /\ RefersInBounds =>
              LET bytes == StringAt(coff.strings, StringPtr(name_field))
              IN  IF ValidUtf8(bytes) THEN Returned(bytes)
                  ELSE resolved = Some([panic |-> FALSE, value |-> None])

\* A seven-character name written inline has been resolved to itself.
C9_Witness ==
    /\ name_field = <<46, 116, 116, 116, 116, 116, 116, 0>>
    /\ resolved = Some([panic |-> FALSE, value |-> Some(<<46, 116, 116, 116, 116, 116, 116>>)])

\* C10. UnresolvedName is not fatal: when the name field of a section header
\* of an otherwise well-formed container cannot be decoded (string-table
\* offset out of range, or bytes that are not text), CoffFile::parse still
\* succeeds and keeps every section header.
C10_UnresolvedNameNotFatal ==
    (/\ Parsed
     /\ WellFormedLayout(data)
     /\ \E k \in 0..(number_of_sections(data) - 1) :
           Undecodable(StringTableOf(data), NameFieldAt(data, k)))
        => (outcome = "Ok" /\ Len(coff.section_headers) = number_of_sections(data))

\* ------------------------------------------------ the walk: vocabulary
\* Every entry of the tree with its depth below the root, in visitation
\* (pre-)order.
RECURSIVE EntriesOf(_, _)
RECURSIVE EntriesOfAll(_, _)
EntriesOf(node, depth) ==
    <<[node |-> node, depth |-> depth]>> \o EntriesOfAll(node.children, depth + 1)

EntriesOfAll(children, depth) ==
    IF children = <<>> THEN <<>>
    ELSE EntriesOf(Head(children), depth) \o EntriesOfAll(Tail(children), depth)

\* A variable entry at depth at most 1 that carries a name, a type reference
\* and a location evaluating to "requires relocated address".
IsGlobal(e) ==
    /\ e.node.tag = "variable"
    /\ e.depth <= 1
    /\ e.node.name # None
    /\ e.node.type # None
    /\ e.node.loc # None
    /\ e.node.loc[1][1] = "Reloc"

\* The Variables recorded for the entries among es that are globals.
RECURSIVE GlobalsAmong(_)
GlobalsAmong(es) ==
    IF es = <<>> THEN <<>>
    ELSE LET e == Head(es)
         IN  (IF IsGlobal(e)
              THEN <<[address |-> e.node.loc[1][2], name |-> e.node.name[1],
                      type_offset |-> e.node.type[1], fields |-> <<>>]>>
              ELSE <<>>) \o GlobalsAmong(Tail(es))

\* The tree with its variable entries left out.
RECURSIVE WithoutVariables(_)
WithoutVariables(node) ==
    LET kept == SelectSeq(node.children, LAMBDA c : c.tag # "variable")
    IN  [node EXCEPT !.children = [i \in 1..Len(kept) |-> WithoutVariables(kept[i])]]

\* The Mapper after walking the tree without its variable entries.
WalkedWithoutVariables ==
    ProcessTreeFrom([typedefs |-> EmptyMap, structs |-> EmptyMap, globals |-> <<>>,
                     base_types |-> EmptyMap, panic |-> FALSE],
                    WithoutVariables(tree), 0)

\* C11. Global recording: after process_tree has walked an entry tree from
\* its root, globals holds, in visitation order, exactly the variable entries
\* at depth at most 1 that carry a name, a type reference and a location
\* evaluating to "requires relocated address"; every other variable is
\* skipped, which neither stops the walk nor changes another collection.
C11_GlobalRecording ==
    (tree # NoTree /\ phase # "walk") =>
        /\ phase = "walked"
        /\ globals = GlobalsAmong(EntriesOf(tree, 0))
        /\ structs = WalkedWithoutVariables.structs
        /\ typedefs = WalkedWithoutVariables.typedefs
        /\ base_types = WalkedWithoutVariables.base_types

\* --------------------------------------------- member flattening: vocabulary
\* How many times the call build_struct(strct_addr) expands the structure at
\* offset a: once if it is that structure, plus the expansions made by the
\* calls for the members whose type_offset is a key of S (build_struct makes
\* one for each, whatever new_strcts already holds).
RECURSIVE ExpansionsBy(_, _, _)
RECURSIVE ExpansionsByMembers(_, _, _)
ExpansionsBy(S, strct_addr, a) ==
    (IF strct_addr = a THEN 1 ELSE 0) + ExpansionsByMembers(S, S[strct_addr].members, a)

ExpansionsByMembers(S, ms, a) ==
    IF ms = <<>> THEN 0
    ELSE (IF Head(ms).type_offset \in DOMAIN S
          THEN ExpansionsBy(S, Head(ms).type_offset, a)
          ELSE 0) + ExpansionsByMembers(S, Tail(ms), a)

\* The expansions of a over the whole flattening pass: build_struct is called
\* for every key of S.
RECURSIVE ExpansionsInPass(_, _, _)
ExpansionsInPass(S, addrs, a) ==
    IF addrs = {} THEN 0
    ELSE LET addr == CHOOSE x \in addrs : TRUE
         IN  ExpansionsBy(S, addr, a) + ExpansionsInPass(S, addrs \ {addr}, a)

\* C12. Memoization: in one run of the member-flattening pass of postprocess
\* that completes, every structure offset is expanded by build_struct at most
\* once, also when several members refer to it or it is a top-level key too.
C12_Memoization ==
    [][(phase \in {"walk", "post"} /\ phase' = "post") =>
          LET S == TypedefPass([structs |-> structs, base_types |-> base_types],
                               typedefs, tdOrder').structs
          IN  \A a \in DOMAIN S : ExpansionsInPass(S, DOMAIN S, a) <= 1]_vars

\* What postprocess leaves behind when the typedefs are iterated in order ord.
PostprocessedIn(ord) ==
    LET st == TypedefPass([structs |-> structs, base_types |-> base_types], typedefs, ord)
        fl == FlattenPass(st.structs, EmptyMap, DOMAIN st.structs)
    IN  [overflow |-> fl.overflow,
         structs |-> fl.new,
         base_types |-> st.base_types,
         globals |-> AttachGlobals(globals, fl.new)]

\* C13. Order independence of typedef flattening: for fixed typedefs, base
\* types, structures and globals, the state a first postprocess leaves (keys
\* of structs and base_types, each structure's name and member tree, each
\* global's fields) is the one every iteration order of the typedef map
\* leads to.
C13_OrderIndependence ==
    [][(phase = "walk" /\ phase' = "post") =>
          \A ord \in Orders(DOMAIN typedefs) :
              /\ ~PostprocessedIn(ord).overflow
              /\ PostprocessedIn(ord).structs = structs'
              /\ PostprocessedIn(ord).base_types = base_types'
              /\ PostprocessedIn(ord).globals = globals']_vars

====
